---- MODULE Spec2Model ----
(***************************************************************************)
(* Wagara Recommender (src/streamlit_app.py): the recommendation core.     *)
(*                                                                         *)
(* Numbers.  Python floats are modelled in two ways.  The scores added up  *)
(* by score_pattern are IEEE-754 doubles, modelled bit-exactly as integer  *)
(* multiples of 2^-53 with round-to-nearest-even addition, because the     *)
(* order recommend produces depends on the rounding.  The colour math      *)
(* (rel_luminance, contrast) is modelled in exact rational arithmetic:     *)
(* a contrast ratio is a pair <<numerator, denominator>>.  Both need       *)
(* integers beyond 32 bits, which are sequences of base-2^14 limbs, least  *)
(* significant first, without leading zero limbs (zero is <<>>).           *)
(***************************************************************************)
EXTENDS Integers, Sequences, FiniteSets, TLC

VARIABLES
  a_hex, b_hex, cr,                 \* contrast(a_hex, b_hex) and its result
  base, palette, desired, picked,   \* pick_contrasting_color(...) and its result
  p, prefs, s,                      \* score_pattern(p, prefs) and its result
  combo,                            \* pick_combo(p, prefs) and its result
  PATTERNS, k, recs,                \* recommend(prefs, k) over the catalog
  hashv,                            \* hash(p.name + str(prefs)) of this process
  reasons_out,                      \* build_reasons(p, prefs) and its result
  combo_again,                      \* pick_combo(p, prefs) called a second time
  channels,                         \* rel_luminance(channels)
  lum,                              \* and its result, a numerator over 10000 * FDen
  file,                             \* the pattern file: the JSON array last written
  cache,                            \* the cached load_patterns_from_json result, <<>> when cleared
  clicks,                           \* the number of editor buttons pressed so far
  op,                               \* the last editor operation: its kind, what it wrote, the catalog before
  pc                                \* the position of the call or of the script run

vars == <<a_hex, b_hex, cr, base, palette, desired, picked, p, prefs, s,
          combo, PATTERNS, k, recs, hashv, reasons_out, combo_again, channels, lum, file, cache, clicks, op, pc>>

None == "None"

----------------------------------------------------------------------------
(* Arbitrary-precision naturals *)

BASE == 2 ^ 14

Tail0(x) == IF x = <<>> THEN <<>> ELSE Tail(x)
Head0(x) == IF x = <<>> THEN 0 ELSE Head(x)

RECURSIVE BigOf(_)
BigOf(n) == IF n = 0 THEN <<>> ELSE <<n % BASE>> \o BigOf(n \div BASE)

RECURSIVE BigNorm(_)
BigNorm(x) ==
  IF x = <<>> THEN <<>>
  ELSE IF x[Len(x)] = 0 THEN BigNorm(SubSeq(x, 1, Len(x) - 1)) ELSE x

RECURSIVE BigAddC(_, _, _)
BigAddC(x, y, c) ==
  IF x = <<>> /\ y = <<>> THEN (IF c = 0 THEN <<>> ELSE <<c>>)
  ELSE LET t == Head0(x) + Head0(y) + c
       IN  <<t % BASE>> \o BigAddC(Tail0(x), Tail0(y), t \div BASE)

BigAdd(x, y) == BigAddC(x, y, 0)

\* x - y for x >= y
RECURSIVE BigSubB(_, _, _)
BigSubB(x, y, b) ==
  IF x = <<>> THEN <<>>
  ELSE LET t == Head(x) - Head0(y) - b
       IN  IF t < 0 THEN <<t + BASE>> \o BigSubB(Tail(x), Tail0(y), 1)
                    ELSE <<t>> \o BigSubB(Tail(x), Tail0(y), 0)

BigSub(x, y) == BigNorm(BigSubB(x, y, 0))

\* -1, 0, 1 as x <, =, > y
RECURSIVE BigCmp(_, _)
BigCmp(x, y) ==
  IF Len(x) # Len(y) THEN (IF Len(x) < Len(y) THEN -1 ELSE 1)
  ELSE IF x = <<>> THEN 0
  ELSE LET n == Len(x)
       IN  IF x[n] # y[n] THEN (IF x[n] < y[n] THEN -1 ELSE 1)
           ELSE BigCmp(SubSeq(x, 1, n - 1), SubSeq(y, 1, n - 1))

BigLe(x, y) == BigCmp(x, y) <= 0
BigLt(x, y) == BigCmp(x, y) < 0

\* x * m for a small m (0 <= m < 2^16)
RECURSIVE BigMulC(_, _, _)
BigMulC(x, m, c) ==
  IF x = <<>> THEN BigOf(c)
  ELSE LET t == Head(x) * m + c
       IN  <<t % BASE>> \o BigMulC(Tail(x), m, t \div BASE)

BigMulSmall(x, m) == IF m = 0 THEN <<>> ELSE BigMulC(x, m, 0)

BigShift(x) == IF x = <<>> THEN <<>> ELSE <<0>> \o x

RECURSIVE BigMul(_, _)
BigMul(x, y) ==
  IF y = <<>> THEN <<>>
  ELSE BigAdd(BigMulSmall(x, Head(y)), BigShift(BigMul(x, Tail(y))))

\* <<x \div m, x % m>> for a small m (0 < m < 2^16)
RECURSIVE BigDivModR(_, _, _)
BigDivModR(x, m, r) ==
  IF x = <<>> THEN <<<<>>, r>>
  ELSE LET n   == Len(x)
           t   == r * BASE + x[n]
           low == BigDivModR(SubSeq(x, 1, n - 1), m, t % m)
       IN  <<low[1] \o <<t \div m>>, low[2]>>

BigDivMod(x, m) ==
  LET qr == BigDivModR(x, m, 0) IN <<BigNorm(qr[1]), qr[2]>>

BigAbsDiff(x, y) == IF BigLe(y, x) THEN BigSub(x, y) ELSE BigSub(y, x)

----------------------------------------------------------------------------
(* TEXT: Python str values as sequences of one-character strings *)

\* the string a sequence of characters spells
RECURSIVE Str(_)
Str(cs) == IF cs = <<>> THEN "" ELSE Head(cs) \o Str(Tail(cs))

IsSpace(ch) == ch \in {" ", "\t", "\n", "\r"}

RECURSIVE lstrip_ws(_)
lstrip_ws(t) == IF t # <<>> /\ IsSpace(Head(t)) THEN lstrip_ws(Tail(t)) ELSE t

RECURSIVE rstrip_ws(_)
rstrip_ws(t) ==
  IF t # <<>> /\ IsSpace(t[Len(t)]) THEN rstrip_ws(SubSeq(t, 1, Len(t) - 1)) ELSE t

\* t.strip()
strip(t) == rstrip_ws(lstrip_ws(t))

\* t.split(sep): the pieces between the separators, empty pieces included
RECURSIVE split_from(_, _, _)
split_from(t, sep, piece) ==
  IF t = <<>> THEN <<piece>>
  ELSE IF Head(t) = sep THEN <<piece>> \o split_from(Tail(t), sep, <<>>)
  ELSE split_from(Tail(t), sep, Append(piece, Head(t)))

split(t, sep) == split_from(t, sep, <<>>)

\* t.splitlines(): as split on the line break, without a last empty line
splitlines(t) ==
  IF t = <<>> THEN <<>>
  ELSE IF t[Len(t)] = "\n" THEN split(SubSeq(t, 1, Len(t) - 1), "\n")
  ELSE split(t, "\n")

\* ch.upper(), for the letters the inputs use
UpperCase == [a |-> "A", b |-> "B", c |-> "C", d |-> "D", e |-> "E", f |-> "F",
              g |-> "G", r |-> "R", z |-> "Z"]

upper(t) == [i \in 1..Len(t) |-> IF t[i] \in DOMAIN UpperCase THEN UpperCase[t[i]] ELSE t[i]]

----------------------------------------------------------------------------
(* COLOR UTILS *)

HexDigits == {"0","1","2","3","4","5","6","7","8","9",
              "A","B","C","D","E","F","a","b","c","d","e","f"}

HexVal(ch) ==
  CASE ch \in {"0","1","2","3","4","5","6","7","8","9"} ->
         (CHOOSE n \in 0..9 : <<"0","1","2","3","4","5","6","7","8","9">>[n + 1] = ch)
    [] ch \in {"A", "a"} -> 10
    [] ch \in {"B", "b"} -> 11
    [] ch \in {"C", "c"} -> 12
    [] ch \in {"D", "d"} -> 13
    [] ch \in {"E", "e"} -> 14
    [] ch \in {"F", "f"} -> 15

\* h.lstrip('#')
RECURSIVE lstrip(_)
lstrip(h) == IF h # <<>> /\ Head(h) = "#" THEN lstrip(Tail(h)) ELSE h

\* h[i:j] (0-based, end-exclusive, clipped to the string as Python clips)
Slice(h, i, j) ==
  LET e == IF j < Len(h) THEN j ELSE Len(h) IN
  IF i + 1 > e THEN <<>> ELSE SubSeq(h, i + 1, e)

\* hex_to_rgb raises ValueError unless all three slices parse: int(t, 16) is
\* defined on a non-empty string of hex digits, white space around it
\* allowed (signs, "0x" and "_" do not occur in the inputs)
hex_ok(h) ==
  \A i \in {0, 2, 4} :
    LET t == strip(Slice(lstrip(h), i, i + 2)) IN
    t # <<>> /\ \A j \in 1..Len(t) : t[j] \in HexDigits

RECURSIVE Int16Digits(_)
Int16Digits(t) == IF t = <<>> THEN 0
                  ELSE Int16Digits(SubSeq(t, 1, Len(t) - 1)) * 16 + HexVal(t[Len(t)])

Int16(t) == Int16Digits(strip(t))

hex_to_rgb(h) ==
  LET t == lstrip(h) IN
  <<Int16(Slice(t, 0, 2)), Int16(Slice(t, 2, 4)), Int16(Slice(t, 4, 6))>>

\* Channel values after f are numerators over FDen; a luminance is a
\* numerator over LDen = 10000 * FDen.
FDen == 255 * 1292 * 500

\* ((c+0.055)/1.055)**2.4 for c = v/255, v = 0..255, rounded to 1/FDen
PowerLaw == <<
     137353, 162041, 189141, 218715, 250825, 285529, 322882, 362942,
     405759, 451387, 499876, 551275, 605631, 662992, 723402, 786908,
     853551, 923376, 996424, 1072737, 1152354, 1235316, 1321661, 1411427,
     1504653, 1601376, 1701632, 1805456, 1912885, 2023953, 2138695, 2257144,
     2379334, 2505299, 2635069, 2768679, 2906159, 3047541, 3192856, 3342135,
     3495408, 3652704, 3814054, 3979487, 4149031, 4322716, 4500570, 4682621,
     4868897, 5059426, 5254234, 5453348, 5656796, 5864605, 6076799, 6293406,
     6514451, 6739960, 6969959, 7204471, 7443523, 7687140, 7935345, 8188163,
     8445618, 8707734, 8974536, 9246046, 9522289, 9803286, 10089063, 10379640,
     10675042, 10975291, 11280409, 11590419, 11905342, 12225201, 12550018, 12879814,
     13214611, 13554430, 13899293, 14249221, 14604235, 14964355, 15329603, 15699999,
     16075564, 16456318, 16842281, 17233473, 17629916, 18031628, 18438629, 18850939,
     19268578, 19691565, 20119920, 20553662, 20992809, 21437382, 21887399, 22342878,
     22803840, 23270302, 23742283, 24219802, 24702876, 25191525, 25685766, 26185618,
     26691099, 27202226, 27719018, 28241493, 28769667, 29303559, 29843186, 30388566,
     30939716, 31496653, 32059395, 32627959, 33202362, 33782620, 34368752, 34960773,
     35558700, 36162551, 36772341, 37388088, 38009808, 38637517, 39271232, 39910969,
     40556745, 41208574, 41866474, 42530461, 43200551, 43876759, 44559101, 45247594,
     45942252, 46643092, 47350129, 48063379, 48782857, 49508579, 50240560, 50978816,
     51723361, 52474211, 53231381, 53994886, 54764742, 55540962, 56323563, 57112559,
     57907965, 58709796, 59518066, 60332790, 61153983, 61981660, 62815834, 63656521,
     64503734, 65357489, 66217800, 67084680, 67958145, 68838208, 69724883, 70618186,
     71518128, 72424726, 73337993, 74257942, 75184588, 76117944, 77058025, 78004843,
     78958414, 79918750, 80885865, 81859772, 82840486, 83828020, 84822387, 85823601,
     86831675, 87846622, 88868456, 89897191, 90932838, 91975412, 93024926, 94081393,
     95144826, 96215238, 97292642, 98377051, 99468478, 100566935, 101672437, 102784995,
     103904623, 105031333, 106165138, 107306051, 108454084, 109609250, 110771561, 111941031,
     113117672, 114301495, 115492515, 116690742, 117896190, 119108871, 120328798, 121555982,
     122790435, 124032171, 125281202, 126537538, 127801194, 129072180, 130350510, 131636194,
     132929245, 134229676, 135537497, 136852722, 138175361, 139505427, 140842932, 142187888,
     143540306, 144900197, 146267575, 147642451, 149024835, 150414741, 151812179, 153217162,
     154629700, 156049806, 157477490, 158912766, 160355643, 161806133, 163264248, 164730000 >>

\* f(c): c = c/255.0; c/12.92 if c <= 0.04045*255 else ((c+0.055)/1.055)**2.4
\* The test compares the already normalised c = v/255 with 0.04045*255.
f(v) == IF v * 100000 <= 4045 * 255 * 255 THEN v * 100 * (FDen \div (255 * 1292))
        ELSE PowerLaw[v + 1]

\* 0.2126*r + 0.7152*g + 0.0722*b of the three channels after f
weighted(fs) ==
  BigAdd(BigAdd(BigMulSmall(BigOf(fs[1]), 2126), BigMulSmall(BigOf(fs[2]), 7152)),
         BigMulSmall(BigOf(fs[3]), 722))

rel_luminance(rgb) == weighted([i \in 1..3 |-> f(rgb[i])])

\* 0.05 over LDen
Flare == BigMulSmall(BigOf(FDen), 500)

\* (hi + 0.05) / (lo + 0.05) as <<numerator, denominator>>
ratio(L1, L2) ==
  LET hi == IF BigLe(L2, L1) THEN L1 ELSE L2
      lo == IF BigLe(L2, L1) THEN L2 ELSE L1
  IN  <<BigAdd(hi, Flare), BigAdd(lo, Flare)>>

\* a slip: the luminances taken in argument order, not as larger and smaller
contrast_unordered(a, b) ==
  <<BigAdd(rel_luminance(hex_to_rgb(a)), Flare),
    BigAdd(rel_luminance(hex_to_rgb(b)), Flare)>>

contrast(a, b) == ratio(rel_luminance(hex_to_rgb(a)), rel_luminance(hex_to_rgb(b)))

\* Comparisons of a ratio with a decimal given in tenths
RatLeTenths(r, t) == BigLe(BigMulSmall(r[1], 10), BigMulSmall(r[2], t))
RatGeTenths(r, t) == BigLe(BigMulSmall(r[2], t), BigMulSmall(r[1], 10))
RatEq(q, r)       == BigMul(q[1], r[2]) = BigMul(r[1], q[2])
RatLt(q, r)       == BigLt(BigMul(q[1], r[2]), BigMul(r[1], q[2]))

TARGETS == [Low |-> <<11, 18>>, Medium |-> <<18, 35>>, High |-> <<35, 210>>]

\* {...}.get(desired, (1.8, 3.5)), in tenths
target(d) == IF d \in DOMAIN TARGETS THEN TARGETS[d] ELSE <<18, 35>>

\* abs(x - sum(target)/2) as a ratio: |n/d - (t0+t1)/20| = |20n - (t0+t1)d| / 20d
dist_mid(x, tg) ==
  <<BigAbsDiff(BigMulSmall(x[1], 20), BigMulSmall(x[2], tg[1] + tg[2])),
    BigMulSmall(x[2], 20)>>

\* lo <= cr <= hi
in_target(x, tg) == RatGeTenths(x, tg[1]) /\ RatLeTenths(x, tg[2])

\* one pass of the loop body on colour c, x being contrast(b, c)
cand_step(b, c, x, tg, rest) ==
  IF c = b THEN rest
  ELSE IF in_target(x, tg) THEN <<<<x, c>>>> \o rest ELSE rest

\* the loop over the palette: the (cr, c) pairs appended to cand
RECURSIVE candidates(_, _, _)
candidates(b, pal, tg) ==
  IF pal = <<>> THEN <<>>
  ELSE cand_step(b, Head(pal), contrast(b, Head(pal)), tg, candidates(b, Tail(pal), tg))

\* a slip: the scan keeps the larger key, so it returns the farthest colour
RECURSIVE min_scan_farthest(_, _, _)
min_scan_farthest(keys, i, best) ==
  IF i > Len(keys) THEN best
  ELSE min_scan_farthest(keys, i + 1, IF RatLt(keys[best], keys[i]) THEN i ELSE best)

\* min(seq, key=...): the first element whose key is minimal
RECURSIVE min_scan(_, _, _)
min_scan(keys, i, best) ==
  IF i > Len(keys) THEN best
  ELSE min_scan(keys, i + 1, IF RatLt(keys[i], keys[best]) THEN i ELSE best)

\* a slip: an unstable sort that puts a later element before its equals
RECURSIVE insert_asc_unstable(_, _, _)
insert_asc_unstable(order, keys, i) ==
  IF order = <<>> THEN <<i>>
  ELSE IF ~RatLt(keys[Head(order)], keys[i]) THEN <<i>> \o order
       ELSE <<Head(order)>> \o insert_asc_unstable(Tail(order), keys, i)

\* sorted(seq, key=...): a stable sort, as the order of the indices
RECURSIVE insert_asc(_, _, _)
insert_asc(order, keys, i) ==
  IF order = <<>> THEN <<i>>
  ELSE IF RatLt(keys[i], keys[Head(order)]) THEN <<i>> \o order
       ELSE <<Head(order)>> \o insert_asc(Tail(order), keys, i)

RECURSIVE sorted_asc(_, _)
sorted_asc(keys, n) ==
  IF n = 0 THEN <<>> ELSE insert_asc(sorted_asc(keys, n - 1), keys, n)

\* min(palette, key=lambda x: abs(contrast(base, x) - sum(target)/2))
closest_of_palette(b, pal, tg) ==
  pal[min_scan([i \in 1..Len(pal) |-> dist_mid(contrast(b, pal[i]), tg)], 2, 1)]

\* cand.sort(key=lambda t: abs(t[0] - sum(target)/2)); cand[0][1]
first_sorted(cand, tg) ==
  cand[sorted_asc([i \in 1..Len(cand) |-> dist_mid(cand[i][1], tg)], Len(cand))[1]][2]

\* the two return statements, cand being the list the loop has built
pick_from(b, pal, tg, cand) ==
  IF cand = <<>> THEN closest_of_palette(b, pal, tg) ELSE first_sorted(cand, tg)

pick_contrasting_color(b, pal, d) ==
  pick_from(b, pal, target(d), candidates(b, pal, target(d)))

----------------------------------------------------------------------------
(* IEEE-754 doubles in [0, 8) that are multiples of 2^-53, as the number of *)
(* 2^-53 units.  Every partial sum of the weights is such a double.        *)

RECURSIVE Pow2(_)
Pow2(e) == IF e < 14 THEN <<2 ^ e>> ELSE BigShift(Pow2(e - 14))

\* the spacing of the doubles around x, in units
ulp(x) == IF BigLt(x, Pow2(53)) THEN 1
          ELSE IF BigLt(x, Pow2(54)) THEN 2
          ELSE IF BigLt(x, Pow2(55)) THEN 4 ELSE 8

\* the choice between the multiple of q below x (down) and the one above,
\* r being the remainder of x
round_pick(r, down, q) ==
  IF 2 * r < q THEN down
  ELSE IF 2 * r > q THEN BigAdd(down, BigOf(q))
  ELSE IF (Head0(down) \div q) % 2 = 0 THEN down ELSE BigAdd(down, BigOf(q))

\* round-to-nearest, ties-to-even, of the exact x to a multiple of q
round_even(x, q) == round_pick(Head0(x) % q, BigSub(x, BigOf(Head0(x) % q)), q)

\* the exact sum e rounded to the spacing of the doubles around it
round_sum(e) == round_even(e, ulp(e))

\* x + y in double arithmetic: the exact sum, rounded
fadd(x, y) == round_sum(BigAdd(x, y))

\* the spacing, in units, of the doubles around t/10 (t = 0 or 5 <= t < 80)
spacing(t) == IF t < 10 THEN 1 ELSE IF t < 20 THEN 2 ELSE IF t < 40 THEN 4 ELSE 8

\* dm = <<quotient, remainder>> of t * 2^53 by 10 * q, rounded to nearest even
dbl_round(dm, q) ==
  BigMulSmall(IF 2 * dm[2] < 10 * q THEN dm[1]
              ELSE IF 2 * dm[2] > 10 * q THEN BigAdd(dm[1], BigOf(1))
              ELSE IF Head0(dm[1]) % 2 = 0 THEN dm[1] ELSE BigAdd(dm[1], BigOf(1)),
              q)

\* the double a decimal literal t/10 denotes (t = 0 or 5 <= t < 80)
Dbl(t) == dbl_round(BigDivMod(BigMulSmall(Pow2(53), t), 10 * spacing(t)), spacing(t))

----------------------------------------------------------------------------
(* SCORING & RECOMMENDATION *)

\* a slip: mood weighted like gender and formality
WEIGHTS_flat == [gender |-> Dbl(10), mood |-> Dbl(10), season |-> Dbl(9),
                 formality |-> Dbl(10), motif |-> Dbl(8), contrast |-> Dbl(6)]

WEIGHTS == [gender |-> Dbl(10), mood |-> Dbl(11), season |-> Dbl(9),
            formality |-> Dbl(10), motif |-> Dbl(8), contrast |-> Dbl(6)]

\* x in lst
In(x, lst) == \E i \in 1..Len(lst) : lst[i] = x

\* the truth value Python gives a preference value
Truthy(x) == x # None /\ x # ""

\* prefs.get(key)
Get(pr, key) == IF key \in DOMAIN pr THEN pr[key] ELSE None

\* one "if <condition>: s += w" statement of score_pattern
add_if(cond, sum, w) == IF cond THEN fadd(sum, w) ELSE sum

\* the body of score_pattern, W being the WEIGHTS table
score_with(pt, pr, W) ==
  LET g  == Get(pr, "gender")
      m  == Get(pr, "mood")
      ss == Get(pr, "season")
      t  == Get(pr, "tpo")
      mo == Get(pr, "motif")
      c  == Get(pr, "contrast")
      s0 == Dbl(0)
      s1 == add_if(Truthy(g) /\ (In(g, pt.genders) \/ In("Unisex", pt.genders)),
                   s0, W.gender)
      s2 == add_if(Truthy(m) /\ In(m, pt.mood), s1, W.mood)
      s3 == add_if(Truthy(ss) /\ (In(ss, pt.seasons) \/ In("All year", pt.seasons)),
                   s2, W.season)
      s4 == add_if(Truthy(t) /\ In(t, pt.formality), s3, W.formality)
      s5 == add_if(Truthy(mo) /\ In(mo, pt.motifs), s4, W.motif)
      s6 == add_if(Truthy(c) /\ In(c, pt.contrast_pref), s5, W.contrast)
  IN  s6

score_pattern(pt, pr) == score_with(pt, pr, WEIGHTS)

\* a slip: the season reason without the "All year" wildcard
build_reasons_no_wildcard(pt, pr) ==
  LET se == Get(pr, "season")
      r1 == IF In(Get(pr, "mood"), pt.mood)
            THEN <<"Matches mood '" \o pr.mood \o "'">> ELSE <<>>
      r2 == IF Truthy(se) /\ In(se, pt.seasons)
            THEN <<"Works for '" \o se \o "'">> ELSE <<>>
      r3 == IF In(Get(pr, "tpo"), pt.formality)
            THEN <<"Appropriate for '" \o pr.tpo \o "'">> ELSE <<>>
      r4 == IF In(Get(pr, "motif"), pt.motifs)
            THEN <<"Motif '" \o pr.motif \o "' included">> ELSE <<>>
      r5 == IF In(Get(pr, "contrast"), pt.contrast_pref)
            THEN <<"Good for contrast '" \o pr.contrast \o "'">> ELSE <<>>
  IN  IF r1 \o r2 \o r3 \o r4 \o r5 = <<>>
      THEN <<"Versatile and easy to coordinate">> ELSE r1 \o r2 \o r3 \o r4 \o r5

\* a slip: the fallback appended whatever has been collected
build_reasons_plus_fallback(pt, pr) ==
  LET se == Get(pr, "season")
      r1 == IF In(Get(pr, "mood"), pt.mood)
            THEN <<"Matches mood '" \o pr.mood \o "'">> ELSE <<>>
      r2 == IF Truthy(se) /\ (In(se, pt.seasons) \/ In("All year", pt.seasons))
            THEN <<"Works for '" \o se \o "'">> ELSE <<>>
      r3 == IF In(Get(pr, "tpo"), pt.formality)
            THEN <<"Appropriate for '" \o pr.tpo \o "'">> ELSE <<>>
      r4 == IF In(Get(pr, "motif"), pt.motifs)
            THEN <<"Motif '" \o pr.motif \o "' included">> ELSE <<>>
      r5 == IF In(Get(pr, "contrast"), pt.contrast_pref)
            THEN <<"Good for contrast '" \o pr.contrast \o "'">> ELSE <<>>
  IN  r1 \o r2 \o r3 \o r4 \o r5 \o <<"Versatile and easy to coordinate">>

\* a slip: a reason for the gender match as well
build_reasons_gender(pt, pr) ==
  LET se == Get(pr, "season")
      g  == Get(pr, "gender")
      r0 == IF Truthy(g) /\ (In(g, pt.genders) \/ In("Unisex", pt.genders))
            THEN <<"Suits '" \o g \o "'">> ELSE <<>>
      r1 == IF In(Get(pr, "mood"), pt.mood)
            THEN <<"Matches mood '" \o pr.mood \o "'">> ELSE <<>>
      r2 == IF Truthy(se) /\ (In(se, pt.seasons) \/ In("All year", pt.seasons))
            THEN <<"Works for '" \o se \o "'">> ELSE <<>>
      r3 == IF In(Get(pr, "tpo"), pt.formality)
            THEN <<"Appropriate for '" \o pr.tpo \o "'">> ELSE <<>>
      r4 == IF In(Get(pr, "motif"), pt.motifs)
            THEN <<"Motif '" \o pr.motif \o "' included">> ELSE <<>>
      r5 == IF In(Get(pr, "contrast"), pt.contrast_pref)
            THEN <<"Good for contrast '" \o pr.contrast \o "'">> ELSE <<>>
  IN  IF r0 \o r1 \o r2 \o r3 \o r4 \o r5 = <<>>
      THEN <<"Versatile and easy to coordinate">> ELSE r0 \o r1 \o r2 \o r3 \o r4 \o r5

build_reasons(pt, pr) ==
  LET se == Get(pr, "season")
      t  == Get(pr, "tpo")
      m  == Get(pr, "motif")
      r1 == IF In(Get(pr, "mood"), pt.mood)
            THEN <<"Matches mood '" \o pr.mood \o "'">> ELSE <<>>
      r2 == IF Truthy(se) /\ (In(se, pt.seasons) \/ In("All year", pt.seasons))
            THEN <<"Works for '" \o se \o "'">> ELSE <<>>
      r3 == IF In(t, pt.formality) THEN <<"Appropriate for '" \o t \o "'">> ELSE <<>>
      r4 == IF In(m, pt.motifs) THEN <<"Motif '" \o m \o "' included">> ELSE <<>>
      r5 == IF In(Get(pr, "contrast"), pt.contrast_pref)
            THEN <<"Good for contrast '" \o pr.contrast \o "'">> ELSE <<>>
      reasons == r1 \o r2 \o r3 \o r4 \o r5
  IN  IF reasons = <<>> THEN <<"Versatile and easy to coordinate">> ELSE reasons

DefaultPalette == <<<<"#","2","2","2","2","2","2">>, <<"#","d","d","d","d","d","d">>,
                    <<"#","a","a","a","a","a","a">>>>

PureWhite == <<"#","F","F","F","F","F","F">>
PureBlack == <<"#","0","0","0","0","0","0">>

\* hash(p.name + str(prefs)) % len(p.color_palettes): Python salts str hashes
\* per process, so the hash is any value, fixed for the process (hashv).
palette_index(pt, h) == h[pt.name] % Len(pt.color_palettes)

\* the palette pick_combo works on
selected_palette(pt, h) ==
  IF Len(pt.color_palettes) > 1 THEN pt.color_palettes[palette_index(pt, h) + 1]
  ELSE IF pt.color_palettes # <<>> THEN pt.color_palettes[1]
  ELSE DefaultPalette

\* prefs.get("contrast", "Medium")
desired_contrast(pr) == IF "contrast" \in DOMAIN pr THEN pr.contrast ELSE "Medium"

\* palette[1] if len(palette) > 1 else palette[0]
accent1(pal) == IF Len(pal) > 1 THEN pal[2] ELSE pal[1]

\* a slip: falls back to the last colour instead of the first
accent2_last(pal) == IF Len(pal) > 2 THEN pal[3] ELSE pal[Len(pal)]

\* palette[2] if len(palette) > 2 else palette[0]
accent2(pal) == IF Len(pal) > 2 THEN pal[3] ELSE pal[1]

\* a slip: the cord picked with the user's tier like the belt
obijime_user_tier(obi, pal, pr) == pick_contrasting_color(obi, pal, desired_contrast(pr))

\* pick_contrasting_color(obi, palette, "Medium")
obijime_of(obi, pal, pr) == pick_contrasting_color(obi, pal, "Medium")

\* the six slots, obi being the belt colour already picked
combo_with(pal, obi, pr) ==
  LET base_kimono == pal[1]
      sub1    == accent1(pal)
      sub2    == accent2(pal)
      obijime == obijime_of(obi, pal, pr)
      obiage  == sub2
  IN  [exc |-> "none",
       colors |-> [kimono_base |-> base_kimono, kimono_accent1 |-> sub1,
                   kimono_accent2 |-> sub2, obi |-> obi, obijime |-> obijime,
                   obiage |-> obiage]]

\* int(h[i:i+2], 16) raises ValueError on a colour that is not hex_ok; the
\* calls of contrast in pick_contrasting_color reach every colour of the
\* palette (the loop skips only copies of base, and base is palette[0])
\* pick_combo on the selected palette;
\* exc is "IndexError" when palette[0] is read from an empty palette
combo_of(pal, pr) ==
  IF pal = <<>> THEN [exc |-> "IndexError", colors |-> <<>>]
  ELSE IF \E i \in 1..Len(pal) : ~hex_ok(pal[i]) THEN [exc |-> "ValueError", colors |-> <<>>]
  ELSE combo_with(pal,
                  pick_contrasting_color(pal[1], pal \o <<PureWhite, PureBlack>>,
                                         desired_contrast(pr)),
                  pr)

pick_combo(pt, pr, h) == combo_of(selected_palette(pt, h), pr)

\* a slip: sorted ascending and then reversed, which reverses equal scores
RECURSIVE insert_desc_reversed(_, _, _)
insert_desc_reversed(order, keys, i) ==
  IF order = <<>> THEN <<i>>
  ELSE IF ~BigLt(keys[i], keys[Head(order)]) THEN <<i>> \o order
       ELSE <<Head(order)>> \o insert_desc_reversed(Tail(order), keys, i)

\* sorted(..., key=score, reverse=True): stable, as the order of the indices
RECURSIVE insert_desc(_, _, _)
insert_desc(order, keys, i) ==
  IF order = <<>> THEN <<i>>
  ELSE IF BigLt(keys[Head(order)], keys[i]) THEN <<i>> \o order
       ELSE <<Head(order)>> \o insert_desc(Tail(order), keys, i)

RECURSIVE sorted_desc(_, _)
sorted_desc(keys, n) ==
  IF n = 0 THEN <<>> ELSE insert_desc(sorted_desc(keys, n - 1), keys, n)

RECURSIVE results_of(_, _, _)

\* one pass of the loop body on pattern pt, c being pick_combo(pt, prefs)
result_step(pt, c, later, pr, h) ==
  IF c.exc # "none" THEN [exc |-> c.exc, results |-> <<>>]
  ELSE LET rest == results_of(later, pr, h)
           r    == [pattern |-> pt.name, motifs |-> pt.motifs, notes |-> pt.notes,
                    reasons |-> build_reasons(pt, pr), colors |-> c.colors]
       IN  IF rest.exc # "none" THEN rest
           ELSE [exc |-> "none", results |-> <<r>> \o rest.results]

\* the for loop over top; stops at the first pick_combo that raises
results_of(top, pr, h) ==
  IF top = <<>> THEN [exc |-> "none", results |-> <<>>]
  ELSE result_step(Head(top), pick_combo(Head(top), pr, h), Tail(top), pr, h)

\* scored[:k], scored being the sorted order of the catalog's indices
top_k(cat, scored, kk) == [j \in 1..Len(Slice(scored, 0, kk)) |-> cat[scored[j]]]

recommend(cat, pr, kk, h) ==
  IF cat = <<>> THEN [exc |-> "none", results |-> <<>>]
  ELSE results_of(top_k(cat,
                        sorted_desc([i \in 1..Len(cat) |-> score_pattern(cat[i], pr)],
                                    Len(cat)),
                        kk),
                  pr, h)

----------------------------------------------------------------------------
(* CATALOG FILE AND EDITOR *)

\* obj.get(key, default)
GetOr(obj, key, default) == IF key \in DOMAIN obj THEN obj[key] ELSE default

\* the Pattern a JSON object yields (load_patterns_from_json, merge_patterns);
\* obj["name"] raises KeyError when the key is missing
has_name(obj) == "name" \in DOMAIN obj

pattern_of(obj) ==
  [name |-> obj.name, motifs |-> GetOr(obj, "motifs", <<>>),
   seasons |-> GetOr(obj, "seasons", <<>>), formality |-> GetOr(obj, "formality", <<>>),
   mood |-> GetOr(obj, "mood", <<>>), genders |-> GetOr(obj, "genders", <<>>),
   contrast_pref |-> GetOr(obj, "contrast_pref", <<>>),
   color_palettes |-> GetOr(obj, "color_palettes", <<>>),
   notes |-> GetOr(obj, "notes", "")]

\* load_patterns_from_json without the cache: objects that raise are skipped
RECURSIVE load_file(_)
load_file(data) ==
  IF data = <<>> THEN <<>>
  ELSE (IF has_name(Head(data)) THEN <<pattern_of(Head(data))>> ELSE <<>>)
       \o load_file(Tail(data))

\* the payload save_patterns_to_json dumps
payload_of(patterns) ==
  [i \in 1..Len(patterns) |->
     [name |-> patterns[i].name, motifs |-> patterns[i].motifs,
      seasons |-> patterns[i].seasons, formality |-> patterns[i].formality,
      mood |-> patterns[i].mood, genders |-> patterns[i].genders,
      contrast_pref |-> patterns[i].contrast_pref,
      color_palettes |-> patterns[i].color_palettes, notes |-> patterns[i].notes]]

\* one item of a palette line: the colour it is stored as, or <<>> if dropped
stored_item(it) ==
  IF it # <<>> /\ Head(it) = "#" /\ Len(it) \in {4, 7} THEN <<upper(it)>>
  ELSE IF Len(it) \in {3, 6} THEN <<<<"#">> \o upper(it)>>
  ELSE <<>>

RECURSIVE valid_items(_)
valid_items(items) ==
  IF items = <<>> THEN <<>>
  ELSE (IF strip(Head(items)) = <<>> THEN <<>> ELSE stored_item(strip(Head(items))))
       \o valid_items(Tail(items))

RECURSIVE rows_of(_)
rows_of(lines) ==
  IF lines = <<>> THEN <<>>
  ELSE (IF strip(Head(lines)) = <<>> \/ valid_items(split(strip(Head(lines)), ",")) = <<>>
        THEN <<>>
        ELSE <<valid_items(split(strip(Head(lines)), ","))>>)
       \o rows_of(Tail(lines))

parse_palettes(text) == rows_of(splitlines(text))

\* '%02X' % v
HexChars == <<"0","1","2","3","4","5","6","7","8","9","A","B","C","D","E","F">>

Hex2(v) == <<HexChars[(v \div 16) + 1], HexChars[(v % 16) + 1]>>

\* '#%02X%02X%02X' % rgb
hex_of(rgb) == <<"#">> \o Hex2(rgb[1]) \o Hex2(rgb[2]) \o Hex2(rgb[3])

\* colors.sort(reverse=True, key=count): stable; colors are <<count, rgb>>
RECURSIVE insert_by_count(_, _)
insert_by_count(sorted, c) ==
  IF sorted = <<>> THEN <<c>>
  ELSE IF Head(sorted)[1] < c[1] THEN <<c>> \o sorted
  ELSE <<Head(sorted)>> \o insert_by_count(Tail(sorted), c)

RECURSIVE sort_by_count(_)
sort_by_count(colors) ==
  IF colors = <<>> THEN <<>>
  ELSE insert_by_count(sort_by_count(SubSeq(colors, 1, Len(colors) - 1)),
                       colors[Len(colors)])

\* the loop over colors[:n*4]: new hex strings are appended until there are n
RECURSIVE hexes_of(_, _, _)
hexes_of(colors, hexes, n) ==
  IF colors = <<>> \/ Len(hexes) >= n THEN hexes
  ELSE hexes_of(Tail(colors),
                IF In(hex_of(Head(colors)[2]), hexes) THEN hexes
                ELSE Append(hexes, hex_of(Head(colors)[2])),
                n)

\* while len(hexes) < n: hexes.append("#CCCCCC")
RECURSIVE pad_hexes(_, _)
pad_hexes(hexes, n) ==
  IF Len(hexes) >= n THEN hexes
  ELSE pad_hexes(Append(hexes, <<"#","C","C","C","C","C","C">>), n)

\* extract_palette_from_image: img is the list getcolors returns, <<>> when
\* it returns nothing or when opening the image raises (both give the fallback)
extract_palette_from_image(img, n) ==
  IF img = <<>>
  THEN <<<<"#","3","3","3","3","3","3">>, <<"#","D","D","D","D","D","D">>,
         <<"#","9","9","9","9","9","9">>>>
  ELSE pad_hexes(hexes_of(Slice(sort_by_count(img), 0, n * 4), <<>>, n), n)

\* the update-or-append loop of Simple Add and of Save:
\* for i, p in enumerate(_patterns): if p.name == new_obj.name: replace; break
upsert_append(patterns, new_obj) == Append(patterns, new_obj)

RECURSIVE upsert(_, _)
upsert(patterns, new_obj) ==
  IF patterns = <<>> THEN <<new_obj>>
  ELSE IF Head(patterns).name = new_obj.name THEN <<new_obj>> \o Tail(patterns)
  ELSE <<Head(patterns)>> \o upsert(Tail(patterns), new_obj)

\* base_map[name] = p on a dict kept as the list of its values in insertion
\* order: an existing key keeps its place, all entries of that key collapse
RECURSIVE dict_set(_, _)
dict_set(values, newp) ==
  IF values = <<>> THEN <<newp>>
  ELSE IF Head(values).name = newp.name THEN <<newp>> \o Tail(values)
  ELSE <<Head(values)>> \o dict_set(Tail(values), newp)

\* {p.name: p for p in base}
RECURSIVE base_map_of(_)
base_map_of(b) ==
  IF b = <<>> THEN <<>>
  ELSE dict_set(base_map_of(SubSeq(b, 1, Len(b) - 1)), b[Len(b)])

\* the loop of merge_patterns over incoming; an object without "name" is skipped
RECURSIVE merge_into(_, _)
merge_into(values, incoming) ==
  IF incoming = <<>> THEN values
  ELSE merge_into(IF has_name(Head(incoming))
                  THEN dict_set(values, pattern_of(Head(incoming))) ELSE values,
                  Tail(incoming))

merge_patterns(b, incoming) == merge_into(base_map_of(b), incoming)

\* a slip: the file is written and the cached load is kept
save_without_clear(patterns, cached) ==
  [file |-> payload_of(patterns), cache |-> cached]

\* save_patterns_to_json: the file is rewritten and the cached load cleared
save_patterns_to_json(patterns, cached) ==
  [file |-> payload_of(patterns), cache |-> <<>>]

\* the sample patterns of the Seed button (o-macron and the dash of the
\* source are written o and -)
samples == <<
  [name |-> "Seigaiha (Blue Ocean Waves)",
   motifs |-> <<"Geometric", "Classic", "Nature">>, seasons |-> <<"Spring", "Summer", "Autumn", "All year">>,
   formality |-> <<"Casual", "Semi-formal">>, mood |-> <<"Calm", "Elegant", "Refreshing">>,
   genders |-> <<"Male", "Female", "Unisex">>, contrast_pref |-> <<"Low", "Medium">>,
   color_palettes |->
      <<<<<<"#","0","F","4","C","8","1">>, <<"#","E","6","E","D","F","7">>, <<"#","F","2","C","7","5","C">>>>,
        <<<<"#","2","C","3","E","5","0">>, <<"#","B","D","C","3","C","7">>, <<"#","F","3","9","C","1","2">>>>>>,
   notes |-> "Waves symbolizing peace and everlasting happiness."],
  [name |-> "Asanoha (Hemp Leaf)",
   motifs |-> <<"Geometric", "Classic">>, seasons |-> <<"Spring", "Summer", "All year">>,
   formality |-> <<"Casual", "Semi-formal">>, mood |-> <<"Bright", "Sharp", "Refreshing">>,
   genders |-> <<"Male", "Female", "Unisex">>, contrast_pref |-> <<"Medium", "High">>,
   color_palettes |->
      <<<<<<"#","E","F","4","7","6","F">>, <<"#","F","F","D","1","6","6">>, <<"#","0","6","D","6","A","0">>>>,
        <<<<"#","2","6","4","6","5","3">>, <<"#","2","A","9","D","8","F">>, <<"#","E","9","C","4","6","A">>>>>>,
   notes |-> "Dynamic hemp leaf pattern symbolizing growth and protection."],
  [name |-> "Shippo (Seven Treasures)",
   motifs |-> <<"Geometric", "Classic", "Lucky symbol">>, seasons |-> <<"All year">>,
   formality |-> <<"Semi-formal", "Formal">>, mood |-> <<"Elegant", "Graceful", "Soft">>,
   genders |-> <<"Female", "Unisex">>, contrast_pref |-> <<"Low", "Medium">>,
   color_palettes |->
      <<<<<<"#","8","E","7","C","C","3">>, <<"#","F","6","F","2","F","F">>, <<"#","D","4","A","F","3","7">>>>,
        <<<<"#","9","8","4","4","4","7">>, <<"#","F","5","E","6","C","A">>, <<"#","3","A","6","E","A","5">>>>>>,
   notes |-> "Circular motif symbolizing harmony and good fortune."],
  [name |-> "Yagasuri (Arrow Feathers)",
   motifs |-> <<"Geometric", "Classic">>, seasons |-> <<"All year">>,
   formality |-> <<"Casual", "Semi-formal">>, mood |-> <<"Sharp", "Strong", "Calm">>,
   genders |-> <<"Female", "Unisex">>, contrast_pref |-> <<"Medium", "High">>,
   color_palettes |->
      <<<<<<"#","8","0","0","0","2","0">>, <<"#","F","F","F","1","E","6">>, <<"#","1","B","1","B","1","B">>>>,
        <<<<"#","0","D","3","B","6","6">>, <<"#","F","A","F","0","C","A">>, <<"#","F","9","5","7","3","8">>>>>>,
   notes |-> "Arrow feather pattern representing determination and direction."],
  [name |-> "Ichimatsu (Checkerboard)",
   motifs |-> <<"Geometric", "Modern", "Classic">>, seasons |-> <<"All year">>,
   formality |-> <<"Casual", "Semi-formal">>, mood |-> <<"Playful", "Bold", "Bright">>,
   genders |-> <<"Male", "Female", "Unisex">>, contrast_pref |-> <<"Medium", "High">>,
   color_palettes |->
      <<<<<<"#","2","D","3","1","4","2">>, <<"#","B","F","C","0","C","0">>, <<"#","E","F","8","3","5","4">>>>,
        <<<<"#","1","B","9","9","8","B">>, <<"#","E","D","E","B","E","D">>, <<"#","E","7","1","D","3","6">>>>>>,
   notes |-> "Checker pattern representing balance, prosperity, and modern style."],
  [name |-> "Kikko (Tortoise Shell)",
   motifs |-> <<"Geometric", "Classic", "Lucky symbol">>, seasons |-> <<"All year">>,
   formality |-> <<"Semi-formal", "Formal">>, mood |-> <<"Elegant", "Calm">>,
   genders |-> <<"Male", "Female", "Unisex">>, contrast_pref |-> <<"Low", "Medium">>,
   color_palettes |->
      <<<<<<"#","1","C","2","3","3","1">>, <<"#","D","1","D","8","E","0">>, <<"#","C","0","A","0","6","2">>>>,
        <<<<"#","4","C","5","B","5","C">>, <<"#","E","A","E","A","E","A">>, <<"#","8","A","A","2","9","E">>>>>>,
   notes |-> "Hexagonal tortoise shell pattern symbolizing longevity and stability."],
  [name |-> "Karakusa (Arabesque Vines)",
   motifs |-> <<"Nature", "Classic">>, seasons |-> <<"All year">>,
   formality |-> <<"Casual", "Semi-formal">>, mood |-> <<"Graceful", "Soft", "Elegant">>,
   genders |-> <<"Female", "Unisex">>, contrast_pref |-> <<"Low", "Medium">>,
   color_palettes |->
      <<<<<<"#","3","5","6","8","5","9">>, <<"#","F","1","F","A","E","E">>, <<"#","B","5","6","5","7","6">>>>,
        <<<<"#","3","5","5","0","7","0">>, <<"#","E","5","6","B","6","F">>, <<"#","E","0","F","B","F","C">>>>>>,
   notes |-> "Curving vine motif symbolizing vitality and continuity."],
  [name |-> "Tsurukame (Crane & Tortoise)",
   motifs |-> <<"Nature", "Lucky symbol", "Classic">>, seasons |-> <<"All year">>,
   formality |-> <<"Formal">>, mood |-> <<"Elegant", "Traditional", "Refined">>,
   genders |-> <<"Unisex">>, contrast_pref |-> <<"Low", "Medium">>,
   color_palettes |->
      <<<<<<"#","C","0","A","0","6","2">>, <<"#","F","5","F","3","E","7">>, <<"#","6","C","7","5","7","D">>>>,
        <<<<"#","D","4","A","F","3","7">>, <<"#","E","9","E","9","E","9">>, <<"#","5","D","5","D","5","D">>>>>>,
   notes |-> "Crane and tortoise - symbols of longevity and celebration."],
  [name |-> "Sakura (Cherry Blossoms)",
   motifs |-> <<"Nature", "Seasonal">>, seasons |-> <<"Spring">>,
   formality |-> <<"Casual", "Semi-formal">>, mood |-> <<"Bright", "Feminine", "Soft">>,
   genders |-> <<"Female">>, contrast_pref |-> <<"Low", "Medium">>,
   color_palettes |->
      <<<<<<"#","F","F","C","1","C","C">>, <<"#","F","9","E","2","E","7">>, <<"#","B","5","6","5","7","6">>>>,
        <<<<"#","F","F","D","7","E","0">>, <<"#","F","F","F","F","F","F">>, <<"#","A","4","5","D","7","E">>>>>>,
   notes |-> "Cherry blossoms representing beauty, transience, and renewal."],
  [name |-> "Namichidori (Plovers over Waves)",
   motifs |-> <<"Nature", "Dynamic">>, seasons |-> <<"All year">>,
   formality |-> <<"Casual", "Semi-formal">>, mood |-> <<"Playful", "Dynamic", "Resilient">>,
   genders |-> <<"Unisex">>, contrast_pref |-> <<"Medium", "High">>,
   color_palettes |->
      <<<<<<"#","0","0","7","7","B","6">>, <<"#","C","A","F","0","F","8">>, <<"#","F","F","D","1","6","6">>>>,
        <<<<"#","0","2","3","E","8","A">>, <<"#","A","D","E","8","F","4">>, <<"#","F","F","9","F","1","C">>>>>>,
   notes |-> "Waves and plovers - overcoming hardships together with vitality."]
>>

----------------------------------------------------------------------------
(* Value domains *)

white  == <<"#","f","f","f","f","f","f">>
C222   == <<"#","2","2","2","2","2","2">>
Cddd   == <<"#","d","d","d","d","d","d">>
Caaa   == <<"#","a","a","a","a","a","a">>
NAVY   == <<"#","0","F","4","C","8","1">>
MIST   == <<"#","E","6","E","D","F","7">>
GOLD   == <<"#","F","2","C","7","5","C">>

Colours == {PureBlack, PureWhite, white, C222, Cddd, Caaa, NAVY, MIST, GOLD,
            <<"#","E","F","4","7","6","F">>}

MaxPalLen == 3

SeqsUpTo(S, n) == UNION {[1..m -> S] : m \in 0..n}

Tiers == {"Low", "Medium", "High", "Vivid"}

----------------------------------------------------------------------------
(* contrast as a pure function *)

InitContrast ==
  /\ a_hex \in Colours /\ b_hex \in Colours /\ cr = <<>> /\ pc = "call"
  /\ base = None /\ palette = None /\ desired = None /\ picked = None
  /\ p = None /\ prefs = None /\ s = None /\ combo = None
  /\ PATTERNS = None /\ k = None /\ recs = None /\ hashv = None
  /\ reasons_out = None
  /\ combo_again = None
  /\ channels = None
  /\ lum = None
  /\ file = None
  /\ cache = None
  /\ clicks = None
  /\ op = None

CallContrast ==
  /\ pc = "call" /\ pc' = "done"
  /\ cr' = contrast(a_hex, b_hex)
  /\ UNCHANGED <<a_hex, b_hex, base, palette, desired, picked, p, prefs, s,
                 combo, PATTERNS, k, recs, hashv, reasons_out, combo_again, channels, lum, file, cache, clicks, op>>

NextContrast == CallContrast

SpecContrast == InitContrast /\ [][NextContrast]_vars

----------------------------------------------------------------------------
(* rel_luminance as a pure function *)

\* greys, and colours whose three channels differ
InitLuminance ==
  /\ channels \in {<<v, v, v>> : v \in 0..255} \cup {<<v, 255 - v, 10>> : v \in 0..255}
  /\ lum = <<>> /\ pc = "call"
  /\ a_hex = None /\ b_hex = None /\ cr = None
  /\ base = None /\ palette = None /\ desired = None /\ picked = None
  /\ p = None /\ prefs = None /\ s = None /\ combo = None
  /\ PATTERNS = None /\ k = None /\ recs = None /\ hashv = None
  /\ reasons_out = None /\ combo_again = None
  /\ file = None
  /\ cache = None
  /\ clicks = None
  /\ op = None

CallLuminance ==
  /\ pc = "call" /\ pc' = "done"
  /\ lum' = <<rel_luminance(channels)>>
  /\ UNCHANGED <<a_hex, b_hex, cr, base, palette, desired, picked, p, prefs, s,
                 combo, PATTERNS, k, recs, hashv, reasons_out, combo_again, channels, file, cache, clicks, op>>

NextLuminance == CallLuminance

SpecLuminance == InitLuminance /\ [][NextLuminance]_vars

----------------------------------------------------------------------------
(* pick_contrasting_color as a pure function *)

PickColours == {PureBlack, PureWhite, white, C222, Cddd, Caaa}

InitPick ==
  /\ base \in PickColours
  /\ palette \in SeqsUpTo(PickColours, MaxPalLen) \ {<<>>}
  /\ desired \in Tiers
  /\ picked = <<>> /\ pc = "call"
  /\ a_hex = None /\ b_hex = None /\ cr = None
  /\ p = None /\ prefs = None /\ s = None /\ combo = None
  /\ PATTERNS = None /\ k = None /\ recs = None /\ hashv = None
  /\ reasons_out = None
  /\ combo_again = None
  /\ channels = None
  /\ lum = None
  /\ file = None
  /\ cache = None
  /\ clicks = None
  /\ op = None

CallPick ==
  /\ pc = "call" /\ pc' = "done"
  /\ picked' = pick_contrasting_color(base, palette, desired)
  /\ UNCHANGED <<a_hex, b_hex, cr, base, palette, desired, p, prefs, s,
                 combo, PATTERNS, k, recs, hashv, reasons_out, combo_again, channels, lum, file, cache, clicks, op>>

NextPick == CallPick

SpecPick == InitPick /\ [][NextPick]_vars

----------------------------------------------------------------------------
(* score_pattern as a pure function *)

Pattern(name, motifs, seasons, formality, mood, genders, contrast_pref, color_palettes) ==
  [name |-> name, motifs |-> motifs, seasons |-> seasons, formality |-> formality,
   mood |-> mood, genders |-> genders, contrast_pref |-> contrast_pref,
   color_palettes |-> color_palettes, notes |-> ""]

ScorePatterns ==
  {Pattern("A", mo, se, fo, md, ge, co, <<>>) :
     mo \in {<<>>, <<"Nature">>},
     se \in {<<>>, <<"Spring">>, <<"All year">>},
     fo \in {<<>>, <<"Formal">>},
     md \in {<<>>, <<"Calm">>, <<"Bright", "Calm">>},
     ge \in {<<>>, <<"Female">>, <<"Unisex">>, <<"Male", "Female">>},
     co \in {<<>>, <<"Low", "Medium">>}}

ScorePrefs ==
  [gender : {"Male", "Female"}, mood : {"Calm", "Elegant"},
   season : {"Spring", "Winter"}, tpo : {"Formal", "Casual"},
   motif : {"Nature", "Modern"}, contrast : {"Medium", "High"}]

InitScore ==
  /\ p \in ScorePatterns /\ prefs \in ScorePrefs /\ s = <<>> /\ pc = "call"
  /\ a_hex = None /\ b_hex = None /\ cr = None
  /\ base = None /\ palette = None /\ desired = None /\ picked = None
  /\ combo = None /\ PATTERNS = None /\ k = None /\ recs = None /\ hashv = None
  /\ reasons_out = None
  /\ combo_again = None
  /\ channels = None
  /\ lum = None
  /\ file = None
  /\ cache = None
  /\ clicks = None
  /\ op = None

CallScore ==
  /\ pc = "call" /\ pc' = "done"
  /\ s' = score_pattern(p, prefs)
  /\ UNCHANGED <<a_hex, b_hex, cr, base, palette, desired, picked, p, prefs,
                 combo, PATTERNS, k, recs, hashv, reasons_out, combo_again, channels, lum, file, cache, clicks, op>>

NextScore == CallScore

SpecScore == InitScore /\ [][NextScore]_vars

----------------------------------------------------------------------------
(* build_reasons as a pure function *)

InitReasons ==
  /\ p \in ScorePatterns /\ prefs \in ScorePrefs /\ reasons_out = <<>> /\ pc = "call"
  /\ a_hex = None /\ b_hex = None /\ cr = None
  /\ base = None /\ palette = None /\ desired = None /\ picked = None
  /\ s = None /\ combo = None /\ PATTERNS = None /\ k = None /\ recs = None
  /\ hashv = None
  /\ combo_again = None
  /\ channels = None
  /\ lum = None
  /\ file = None
  /\ cache = None
  /\ clicks = None
  /\ op = None

CallReasons ==
  /\ pc = "call" /\ pc' = "done"
  /\ reasons_out' = build_reasons(p, prefs)
  /\ UNCHANGED <<a_hex, b_hex, cr, base, palette, desired, picked, p, prefs, s,
                 combo, PATTERNS, k, recs, hashv, combo_again, channels, lum, file, cache, clicks, op>>

NextReasons == CallReasons

SpecReasons == InitReasons /\ [][NextReasons]_vars

----------------------------------------------------------------------------
(* pick_combo as a pure function *)

ComboColours == {C222, Cddd, PureWhite}

MaxHash == 1

ComboPalettes == SeqsUpTo(ComboColours, MaxPalLen)

ComboPaletteLists ==
  {<<>>} \cup {<<a>> : a \in ComboPalettes}
         \cup {<<a, b>> : a \in ComboPalettes, b \in SeqsUpTo(ComboColours, 1)}
         \cup {<<b, a>> : a \in ComboPalettes, b \in SeqsUpTo(ComboColours, 1)}

ComboPrefs ==
  {[gender |-> "Male", mood |-> "Calm", season |-> "Spring", tpo |-> "Formal",
    motif |-> "Nature", contrast |-> t] : t \in Tiers}
  \cup {[gender |-> "Male", mood |-> "Calm", season |-> "Spring", tpo |-> "Formal",
         motif |-> "Nature"]}

InitCombo ==
  /\ p \in {Pattern("A", <<>>, <<>>, <<>>, <<>>, <<>>, <<>>, cp) : cp \in ComboPaletteLists}
  /\ prefs \in ComboPrefs
  /\ hashv \in [{"A"} -> 0..MaxHash]
  /\ combo = <<>> /\ pc = "call"
  /\ a_hex = None /\ b_hex = None /\ cr = None
  /\ base = None /\ palette = None /\ desired = None /\ picked = None
  /\ s = None /\ PATTERNS = None /\ k = None /\ recs = None
  /\ reasons_out = None
  /\ combo_again = None
  /\ channels = None
  /\ lum = None
  /\ file = None
  /\ cache = None
  /\ clicks = None
  /\ op = None

CallCombo ==
  /\ pc = "call" /\ pc' = "done"
  /\ combo' = pick_combo(p, prefs, hashv)
  /\ UNCHANGED <<a_hex, b_hex, cr, base, palette, desired, picked, p, prefs, s,
                 PATTERNS, k, recs, hashv, reasons_out, combo_again, channels, lum, file, cache, clicks, op>>

NextCombo == CallCombo

SpecCombo == InitCombo /\ [][NextCombo]_vars

----------------------------------------------------------------------------
(* pick_combo called twice in one process, with the same entry and prefs *)

InitComboTwice ==
  /\ p \in {Pattern("A", <<>>, <<>>, <<>>, <<>>, <<>>, <<>>, cp) : cp \in ComboPaletteLists}
  /\ prefs \in ComboPrefs
  /\ hashv \in [{"A"} -> 0..MaxHash]
  /\ combo = <<>> /\ combo_again = <<>> /\ pc = "call"
  /\ a_hex = None /\ b_hex = None /\ cr = None
  /\ base = None /\ palette = None /\ desired = None /\ picked = None
  /\ s = None /\ PATTERNS = None /\ k = None /\ recs = None
  /\ reasons_out = None
  /\ channels = None
  /\ lum = None
  /\ file = None
  /\ cache = None
  /\ clicks = None
  /\ op = None

CallComboFirst ==
  /\ pc = "call" /\ pc' = "again"
  /\ combo' = pick_combo(p, prefs, hashv)
  /\ UNCHANGED <<a_hex, b_hex, cr, base, palette, desired, picked, p, prefs, s,
                 PATTERNS, k, recs, hashv, reasons_out, combo_again, channels, lum, file, cache, clicks, op>>

\* a slip: the string hash salted anew for every call
CallComboAgain_resalted ==
  /\ pc = "again" /\ pc' = "done"
  /\ hashv' \in [{"A"} -> 0..MaxHash]
  /\ combo_again' = pick_combo(p, prefs, hashv')
  /\ UNCHANGED <<a_hex, b_hex, cr, base, palette, desired, picked, p, prefs, s,
                 PATTERNS, k, recs, reasons_out, combo, channels, lum, file, cache, clicks, op>>

\* the same process: hash() of the same string is the same value
CallComboAgain ==
  /\ pc = "again" /\ pc' = "done"
  /\ combo_again' = pick_combo(p, prefs, hashv)
  /\ UNCHANGED <<a_hex, b_hex, cr, base, palette, desired, picked, p, prefs, s,
                 PATTERNS, k, recs, hashv, reasons_out, combo, channels, lum, file, cache, clicks, op>>

NextComboTwice == CallComboFirst \/ CallComboAgain

SpecComboTwice == InitComboTwice /\ [][NextComboTwice]_vars

----------------------------------------------------------------------------
(* The script's run: recommend over the loaded catalog *)

EA == Pattern("A", <<>>, <<"Spring">>, <<"Formal">>, <<>>, <<>>, <<>>,
              <<<<C222, Cddd, Caaa>>>>)
EB == Pattern("B", <<"Nature">>, <<>>, <<>>, <<"Calm">>, <<>>, <<>>,
              <<<<PureWhite>>, <<C222, Cddd>>>>)

RecPatterns ==
  {EA, EB,
   Pattern("C", <<>>, <<"All year">>, <<>>, <<>>, <<"Unisex">>, <<>>, <<>>),
   Pattern("D", <<>>, <<>>, <<>>, <<>>, <<>>, <<>>, <<<<>>>>),
   Pattern("E", <<"Nature", "Modern">>, <<"Spring", "Winter">>, <<"Formal", "Casual">>,
           <<"Calm", "Elegant">>, <<"Male", "Female">>, <<"Medium", "High">>,
           <<<<PureBlack, white>>>>)}

MaxCatalog == 3

MaxK == 4

RecPrefs ==
  {[gender |-> "Male", mood |-> "Calm", season |-> "Spring", tpo |-> "Formal",
    motif |-> "Nature", contrast |-> "Medium"],
   [gender |-> "Female", mood |-> "Elegant", season |-> "Winter", tpo |-> "Casual",
    motif |-> "Modern", contrast |-> "High"]}

Init ==
  \* catalogs: names are unique (the editor keeps them so)
  /\ PATTERNS \in {c \in SeqsUpTo(RecPatterns, MaxCatalog) :
                     \A i, j \in 1..Len(c) : i # j => c[i].name # c[j].name}
  /\ prefs \in RecPrefs
  /\ k \in 0..MaxK
  /\ hashv \in [{"B"} -> 0..MaxHash]
  /\ recs = <<>> /\ pc = "call"
  /\ a_hex = None /\ b_hex = None /\ cr = None
  /\ base = None /\ palette = None /\ desired = None /\ picked = None
  /\ p = None /\ s = None /\ combo = None
  /\ reasons_out = None
  /\ combo_again = None
  /\ channels = None
  /\ lum = None
  /\ file = None
  /\ cache = None
  /\ clicks = None
  /\ op = None

\* a slip: PATTERNS.sort(key=..., reverse=True) in place of sorted(...)
Recommend_sort_in_place ==
  /\ pc = "call" /\ pc' = "done"
  /\ recs' = recommend(PATTERNS, prefs, k, hashv)
  /\ PATTERNS' = top_k(PATTERNS,
                       sorted_desc([i \in 1..Len(PATTERNS) |-> score_pattern(PATTERNS[i], prefs)],
                                   Len(PATTERNS)),
                       Len(PATTERNS))
  /\ UNCHANGED <<a_hex, b_hex, cr, base, palette, desired, picked, p, prefs, s,
                 combo, k, hashv, reasons_out, combo_again, channels, lum, file, cache, clicks, op>>

\* recommend builds new lists (sorted, scored[:k], palette + [...]) and writes
\* to none of its inputs
Recommend ==
  /\ pc = "call" /\ pc' = "done"
  /\ recs' = recommend(PATTERNS, prefs, k, hashv)
  /\ UNCHANGED <<a_hex, b_hex, cr, base, palette, desired, picked, p, prefs, s,
                 combo, PATTERNS, k, hashv, reasons_out, combo_again, channels, lum, file, cache, clicks, op>>

Next == Recommend

Spec == Init /\ [][Next]_vars

----------------------------------------------------------------------------
(* The script's runs with the editor: load, recommend, one button, rerun *)

MaxClicks == 2

\* what the name fields may hold
NameInputs == {<<>>, <<" ">>, <<"A">>, <<" ", "A">>, <<"B">>}

\* what the Palettes text area may hold
PaletteTexts ==
  {<<"#","0","F","4","C","8","1",","," ","#","E","6","E","D","F","7">>,
   <<"#","a","b","c">>,
   <<"2","2","2","2","2","2","\n","\n"," ","f","f","f"," ",",",",","#","1","2","3","4","5">>,
   <<"r","e","d",","," ","#","G","G","G","G","G","G">>,
   <<"z","z",","," ","#","1","2","3","4","5","6","7","\n"," ",",">>,
   <<>>}

\* what getcolors may return for the uploaded image (<<>>: nothing, or unreadable)
Images ==
  {<<>>,
   <<<<5, <<255, 255, 255>>>>>>,
   <<<<1, <<0, 0, 0>>>>, <<7, <<15, 76, 129>>>>, <<7, <<230, 237, 247>>>>, <<2, <<1, 2, 3>>>>>>}

\* what the pasted or uploaded JSON may be
Incoming ==
  {[is_list |-> TRUE,
    items |-> <<[name |-> "A", color_palettes |-> <<<<>>>>]>>],
   [is_list |-> TRUE,
    items |-> <<[name |-> "B", color_palettes |-> <<<<<<"r","e","d">>>>>>],
                [motifs |-> <<"Nature">>],
                [name |-> "B", mood |-> <<"Calm">>, color_palettes |-> <<<<C222, PureWhite>>>>]>>],
   [is_list |-> TRUE,
    items |-> <<[name |-> "C", motifs |-> <<"Nature">>, seasons |-> <<"All year">>,
                 formality |-> <<"Formal">>, mood |-> <<"Calm">>, genders |-> <<"Unisex">>,
                 contrast_pref |-> <<"Medium">>, color_palettes |-> <<<<NAVY, MIST, GOLD>>>>,
                 notes |-> "n"]>>],
   [is_list |-> FALSE, items |-> <<>>]}

\* the pattern file before the first run: well-formed entries with unique names
InitialFiles ==
  {<<>>,
   payload_of(<<EA, EB>>),
   <<[name |-> "B", mood |-> <<"Calm">>], [name |-> "A", color_palettes |-> <<<<C222, Cddd>>>>]>>}

InitEditor ==
  /\ file \in InitialFiles
  /\ cache = <<>> /\ PATTERNS = <<>> /\ recs = <<>>
  /\ prefs \in RecPrefs
  /\ k = 3
  /\ hashv \in {[n \in {"A", "B", "C", " ", " A"}
                          \cup {samples[i].name : i \in 1..Len(samples)} |-> h] :
                  h \in 0..MaxHash}
  /\ clicks = 0
  /\ op = [kind |-> "none", objs |-> <<>>, before |-> <<>>]
  /\ pc = "start"
  /\ a_hex = None /\ b_hex = None /\ cr = None
  /\ base = None /\ palette = None /\ desired = None /\ picked = None
  /\ p = None /\ s = None /\ combo = None
  /\ reasons_out = None /\ combo_again = None /\ channels = None /\ lum = None

\* what no step of the script touches
EditorFrame ==
  UNCHANGED <<a_hex, b_hex, cr, base, palette, desired, picked, p, s, combo,
              reasons_out, combo_again, channels, lum, k, hashv>>

\* the top of the script: PATTERNS = load_patterns_from_json(path), served
\* from the cache when it holds a value; then recs = recommend(prefs, k=3).
\* An exception of recommend ends the run before the editor is drawn.
RunScript ==
  /\ pc = "start"
  /\ PATTERNS' = IF cache # <<>> THEN cache[1] ELSE load_file(file)
  /\ cache' = <<PATTERNS'>>
  /\ recs' = recommend(PATTERNS', prefs, k, hashv)
  /\ pc' = IF recs'.exc = "none" THEN "ui" ELSE "halted"
  /\ UNCHANGED <<file, prefs, clicks, op>>
  /\ EditorFrame

\* a sidebar widget is changed: the script runs again
ChangePrefs ==
  /\ pc \in {"ui", "halted"} /\ pc' = "start"
  /\ prefs' \in RecPrefs
  /\ UNCHANGED <<file, cache, PATTERNS, recs, clicks, op>>
  /\ EditorFrame

\* a button handler that writes: save_patterns_to_json(path, patterns), rerun
Write(kind, objs, patterns) ==
  /\ file' = save_patterns_to_json(patterns, cache).file
  /\ cache' = save_patterns_to_json(patterns, cache).cache
  /\ op' = [kind |-> kind, objs |-> objs, before |-> PATTERNS]

\* a button handler that reports an error and writes nothing
Reject ==
  /\ UNCHANGED <<file, cache>>
  /\ op' = [kind |-> "rejected", objs |-> <<>>, before |-> PATTERNS]

\* the part all button handlers share: one button per run, then the next run
Click ==
  /\ pc = "ui" /\ clicks < MaxClicks
  /\ pc' = "start" /\ clicks' = clicks + 1
  /\ UNCHANGED <<PATTERNS, recs, prefs>>
  /\ EditorFrame

\* "Delete ALL existing patterns": "[]" is written and the cache cleared
WipePatterns ==
  /\ Click
  /\ file' = <<>> /\ cache' = <<>>
  /\ op' = [kind |-> "wipe", objs |-> <<>>, before |-> PATTERNS]

\* the entry Simple Add builds
simple_obj(name, img) ==
  Pattern(Str(strip(name)), <<>>, <<"All year">>, <<>>, <<>>, <<"Unisex">>, <<"Medium">>,
          <<extract_palette_from_image(img, 3)>>)

\* "Add this pattern from image"
SimpleAdd ==
  /\ Click
  /\ \E name \in NameInputs, has_image \in BOOLEAN, img \in Images :
       IF ~has_image \/ strip(name) = <<>> THEN Reject
       ELSE Write("add", <<simple_obj(name, img)>>, upsert(PATTERNS, simple_obj(name, img)))

\* the entry Save builds
manager_obj(name, text) ==
  Pattern(Str(name), <<>>, <<>>, <<>>, <<"Calm">>, <<>>, <<>>, parse_palettes(text))

\* "Save (Create/Update)"
SavePattern ==
  /\ Click
  /\ \E name \in NameInputs, text \in PaletteTexts :
       IF name = <<>> \/ parse_palettes(text) = <<>> THEN Reject
       ELSE Write("save", <<manager_obj(name, text)>>, upsert(PATTERNS, manager_obj(name, text)))

\* "Delete", enabled when an existing pattern is selected
DeletePattern ==
  /\ Click
  /\ \E i \in 1..Len(PATTERNS) :
       Write("delete", <<PATTERNS[i]>>,
             SelectSeq(PATTERNS, LAMBDA q : q.name # PATTERNS[i].name))

\* "Import / Merge JSON"
ImportJson ==
  /\ Click
  /\ \E inc \in Incoming :
       IF inc.is_list
       THEN Write("import", load_file(inc.items), merge_patterns(PATTERNS, inc.items))
       ELSE Reject

\* "Seed sample 10 patterns"
SeedSamples ==
  /\ Click
  /\ Write("import", load_file(samples), merge_patterns(PATTERNS, samples))

NextEditor ==
  \/ RunScript \/ ChangePrefs
  \/ WipePatterns \/ SimpleAdd \/ SavePattern \/ DeletePattern \/ ImportJson \/ SeedSamples

SpecEditor == InitEditor /\ [][NextEditor]_vars

----------------------------------------------------------------------------
(* Properties *)

Range(sq) == {sq[i] : i \in 1..Len(sq)}

MinOf(x, y) == IF x < y THEN x ELSE y

\* the exact decimal sum, in tenths, of the weights whose condition matches
MatchTenths(pt, pr) ==
    (IF pr.gender \in Range(pt.genders) \/ "Unisex" \in Range(pt.genders) THEN 10 ELSE 0)
  + (IF pr.mood \in Range(pt.mood) THEN 11 ELSE 0)
  + (IF pr.season \in Range(pt.seasons) \/ "All year" \in Range(pt.seasons) THEN 9 ELSE 0)
  + (IF pr.tpo \in Range(pt.formality) THEN 10 ELSE 0)
  + (IF pr.motif \in Range(pt.motifs) THEN 8 ELSE 0)
  + (IF pr.contrast \in Range(pt.contrast_pref) THEN 6 ELSE 0)

\* 5.3999999999999995, the double one unit in the last place below 5.4
BelowMax == BigSub(Dbl(54), BigOf(8))

\* C1 as claimed: the score returned by score_pattern equals the decimal sum
\* of the weights of the matching conditions, lies between 0.0 and 5.4, and
\* is 5.4 exactly when all six conditions match.
C1_ExactSum ==
  pc = "done" =>
    /\ s = Dbl(MatchTenths(p, prefs))
    /\ BigLe(s, Dbl(54))
    /\ (s = Dbl(54) <=> MatchTenths(p, prefs) = 54)

\* C1 amended: the score is the double-precision sum of the weights of the
\* matching conditions, within 10^-15 of their decimal sum (10 * 2^53 * 10^-15
\* is just above 90 units), between 0.0 and 5.4, and largest, at
\* 5.3999999999999995, exactly when all six conditions match.
C1_RoundedSum ==
  pc = "done" =>
    /\ BigLe(BigAbsDiff(BigMulSmall(s, 10),
                        BigMulSmall(Pow2(53), MatchTenths(p, prefs))), BigOf(90))
    /\ BigLe(s, Dbl(54))
    /\ BigLe(s, BelowMax)
    /\ (s = BelowMax <=> MatchTenths(p, prefs) = 54)

C1_AllSixMatch == pc = "done" /\ MatchTenths(p, prefs) = 54 /\ s = BelowMax /\ s # Dbl(54)

\* the catalog position of a returned entry (names are unique in a catalog)
PosOf(r) == CHOOSE i \in 1..Len(PATTERNS) : PATTERNS[i].name = r.pattern

Score(i) == score_pattern(PATTERNS[i], prefs)

Returned == {PosOf(recs.results[j]) : j \in 1..Len(recs.results)}

\* C2: when recommend returns, its entries are the first min(k, |catalog|)
\* entries of the catalog in stable descending score order: the scores do not
\* increase, no omitted entry scores higher than a returned one, and entries
\* of equal score appear, and are cut off, in catalog order.
C2_StableTopK ==
  (pc = "done" /\ recs.exc = "none") =>
    LET r == recs.results
        n == Len(r)
    IN  /\ n = MinOf(k, Len(PATTERNS))
        /\ Cardinality(Returned) = n
        /\ \A j \in 1..n : \E i \in 1..Len(PATTERNS) : PATTERNS[i].name = r[j].pattern
        /\ \A j1, j2 \in 1..n : j1 < j2 =>
             /\ ~BigLt(Score(PosOf(r[j1])), Score(PosOf(r[j2])))
             /\ Score(PosOf(r[j1])) = Score(PosOf(r[j2])) => PosOf(r[j1]) < PosOf(r[j2])
        /\ \A i \in (1..Len(PATTERNS)) \ Returned : \A j \in 1..n :
             /\ ~BigLt(Score(PosOf(r[j])), Score(i))
             /\ Score(i) = Score(PosOf(r[j])) => PosOf(r[j]) < i

\* a returned entry and an omitted one tie, and so do two returned ones
C2_TieCutOff ==
  /\ pc = "done" /\ recs.exc = "none"
  /\ \E j \in 1..Len(recs.results) : \E i \in (1..Len(PATTERNS)) \ Returned :
       Score(i) = Score(PosOf(recs.results[j]))
  /\ \E j1, j2 \in 1..Len(recs.results) :
       j1 < j2 /\ Score(PosOf(recs.results[j1])) = Score(PosOf(recs.results[j2]))

\* C3 as claimed: for every catalog and every k >= 0 recommend returns exactly
\* min(k, |catalog|) results (none for an empty catalog, all of a short one).
C3_ResultCount ==
  pc = "done" =>
    /\ recs.exc = "none"
    /\ Len(recs.results) = MinOf(k, Len(PATTERNS))

\* C4 as claimed: contrast("#000000", "#FFFFFF") is 21.0 and every contrast
\* ratio lies in [1.0, 21.0].
C4_BlackOnWhite ==
  pc = "done" =>
    /\ (a_hex = PureBlack /\ b_hex = PureWhite) => cr[1] = BigMulSmall(cr[2], 21)
    /\ RatGeTenths(cr, 10)
    /\ RatLeTenths(cr, 210)

\* C5: contrast(a, b) equals contrast(b, a) for all colours a and b.
C5_Symmetric == pc = "done" => RatEq(cr, contrast(b_hex, a_hex))

C5_DifferentLuminance == pc = "done" /\ a_hex # b_hex /\ cr[1] # cr[2]

\* the target range the claims give for a tier, in tenths
TierRange(d) == CASE d = "Low" -> <<11, 18>>
                  [] d = "High" -> <<35, 210>>
                  [] OTHER -> <<18, 35>>

InTier(x, d) == RatGeTenths(x, TierRange(d)[1]) /\ RatLeTenths(x, TierRange(d)[2])

\* positions of the palette colours that differ from base and are in range
Qualifying == {i \in 1..Len(palette) :
                 palette[i] # base /\ InTier(contrast(base, palette[i]), desired)}

\* palette[i] is strictly closer to the midpoint of the range than palette[j]
Closer(i, j) == RatLt(dist_mid(contrast(base, palette[i]), TierRange(desired)),
                      dist_mid(contrast(base, palette[j]), TierRange(desired)))

\* C6: when some palette colour other than base is inside the tier's range
\* (Medium's for an unrecognized tier), pick_contrasting_color returns the
\* in-range colour closest to the midpoint, the first such in palette order.
C6_ClosestInRange ==
  (pc = "done" /\ Qualifying # {}) =>
    \E i \in Qualifying :
      /\ picked = palette[i]
      /\ \A j \in Qualifying : ~Closer(j, i) /\ (j < i => Closer(i, j))

\* two different in-range colours are equally close and the first is returned
C6_TieFirstWins ==
  /\ pc = "done"
  /\ \E i, j \in Qualifying :
       /\ i < j /\ palette[i] # palette[j] /\ picked = palette[i]
       /\ ~Closer(i, j) /\ ~Closer(j, i)
       /\ \A h \in Qualifying : ~Closer(h, i)

\* C7: when no palette colour other than base is inside the range, the result
\* is a member of the whole palette, base included, to which no other member
\* is closer; in every case the result is a member of the palette.
C7_FallbackClosest ==
  pc = "done" =>
    /\ picked \in Range(palette)
    /\ Qualifying = {} =>
         \E i \in 1..Len(palette) :
           picked = palette[i] /\ \A j \in 1..Len(palette) : ~Closer(j, i)

\* nothing qualifies, and the fallback returns base although others are there
C7_FallbackPicksBase ==
  /\ pc = "done" /\ Qualifying = {}
  /\ picked = base /\ \E i \in 1..Len(palette) : palette[i] # base

Slots == {"kimono_base", "kimono_accent1", "kimono_accent2", "obi", "obijime", "obiage"}

\* the palette the spec selects: the only one, or the hashed one of several,
\* or the default triple when there is none
SelectedPalette ==
  LET cp == p.color_palettes IN
  IF cp = <<>> THEN DefaultPalette
  ELSE IF Len(cp) = 1 THEN cp[1]
  ELSE cp[(hashv[p.name] % Len(cp)) + 1]

\* C8 as claimed: pick_combo never fails and returns all six slots; without a
\* palette, or with an empty selected palette, it uses the default triple.
C8_NeverFails ==
  pc = "done" =>
    /\ combo.exc = "none"
    /\ DOMAIN combo.colors = Slots
    /\ (p.color_palettes = <<>> \/ SelectedPalette = <<>>) =>
         combo.colors.kimono_base = DefaultPalette[1]

\* C9: kimono_base is palette[0]; kimono_accent1 is palette[1] if there are
\* two colours, else palette[0]; kimono_accent2 is palette[2] if there are
\* three, else palette[0]; obiage equals kimono_accent2.
C9_Slots ==
  (pc = "done" /\ combo.exc = "none") =>
    LET pal == SelectedPalette
        c   == combo.colors
    IN  /\ c.kimono_base = pal[1]
        /\ c.kimono_accent1 = (IF Len(pal) >= 2 THEN pal[2] ELSE pal[1])
        /\ c.kimono_accent2 = (IF Len(pal) >= 3 THEN pal[3] ELSE pal[1])
        /\ c.obiage = c.kimono_accent2

\* a two-colour palette: accent1 is its second colour, accent2 falls back
C9_TwoColours ==
  /\ pc = "done" /\ combo.exc = "none"
  /\ Len(SelectedPalette) = 2 /\ SelectedPalette[1] # SelectedPalette[2]
  /\ combo.colors.kimono_accent1 = SelectedPalette[2]
  /\ combo.colors.kimono_accent2 = SelectedPalette[1]

UserTier == IF "contrast" \in DOMAIN prefs THEN prefs.contrast ELSE "Medium"

\* C10: obi is picked, with the user's tier, from the palette widened with
\* #FFFFFF and #000000; obijime is picked against obi, with the Medium range
\* whatever the user's tier, from the palette itself and is a member of it.
C10_ObiAndObijime ==
  (pc = "done" /\ combo.exc = "none") =>
    LET pal == SelectedPalette
        c   == combo.colors
    IN  /\ c.obi \in Range(pal) \cup {PureWhite, PureBlack}
        /\ c.obi = pick_contrasting_color(pal[1], pal \o <<PureWhite, PureBlack>>, UserTier)
        /\ c.obijime \in Range(pal)
        /\ c.obijime = pick_contrasting_color(c.obi, pal, "Medium")

\* the user asks for Low, obi is an added colour, and the cord differs from
\* what the Low range would have picked
C10_LowTierMediumCord ==
  /\ pc = "done" /\ combo.exc = "none" /\ UserTier = "Low"
  /\ combo.colors.obi \notin Range(SelectedPalette)
  /\ combo.colors.obijime # pick_contrasting_color(combo.colors.obi, SelectedPalette, "Low")

Fallback == "Versatile and easy to coordinate"

\* a weight table that is 1.0 for one attribute and 0.0 for the others
Only(attr) ==
  [gender    |-> IF attr = "gender" THEN Dbl(10) ELSE Dbl(0),
   mood      |-> IF attr = "mood" THEN Dbl(10) ELSE Dbl(0),
   season    |-> IF attr = "season" THEN Dbl(10) ELSE Dbl(0),
   formality |-> IF attr = "formality" THEN Dbl(10) ELSE Dbl(0),
   motif     |-> IF attr = "motif" THEN Dbl(10) ELSE Dbl(0),
   contrast  |-> IF attr = "contrast" THEN Dbl(10) ELSE Dbl(0)]

\* score_pattern adds the weight of attr for p and prefs
Adds(attr) == score_with(p, prefs, Only(attr)) # Dbl(0)

\* the sentence build_reasons has for an attribute
Sentence(attr) ==
  CASE attr = "mood"      -> "Matches mood '" \o prefs.mood \o "'"
    [] attr = "season"    -> "Works for '" \o prefs.season \o "'"
    [] attr = "formality" -> "Appropriate for '" \o prefs.tpo \o "'"
    [] attr = "motif"     -> "Motif '" \o prefs.motif \o "' included"
    [] attr = "contrast"  -> "Good for contrast '" \o prefs.contrast \o "'"

Surfaced == <<"mood", "season", "formality", "motif", "contrast">>

\* the sentences of the surfaced attributes whose weight is added, in order
RECURSIVE SentencesFrom(_)
SentencesFrom(i) ==
  IF i > Len(Surfaced) THEN <<>>
  ELSE (IF Adds(Surfaced[i]) THEN <<Sentence(Surfaced[i])>> ELSE <<>>)
       \o SentencesFrom(i + 1)

IsSpecific(r) == r # Fallback

\* C11: for prefs from the choice sets, build_reasons has the sentence of
\* mood, season, formality, motif or contrast exactly when score_pattern adds
\* that attribute's weight; the sentences come in that fixed order and there
\* is none for gender.
C11_ReasonsMirrorScore ==
  pc = "done" =>
    SelectSeq(reasons_out, IsSpecific) = SentencesFrom(1)

\* gender and the "All year" wildcard match, mood does not: the season
\* sentence is there and no sentence stands for gender
C11_WildcardNoGender ==
  /\ pc = "done"
  /\ Adds("gender") /\ ~Adds("mood") /\ Adds("motif")
  /\ p.seasons = <<"All year">>
  /\ reasons_out = <<Sentence("season"), Sentence("motif")>>

\* C12: build_reasons never returns an empty sequence, returns the fallback
\* alone when no attribute matches, and never puts the fallback next to an
\* attribute's sentence.
C12_FallbackAlone ==
  pc = "done" =>
    /\ Len(reasons_out) >= 1
    /\ score_pattern(p, prefs) = Dbl(0) => reasons_out = <<Fallback>>
    /\ (\E i \in 1..Len(reasons_out) : reasons_out[i] = Fallback) =>
         reasons_out = <<Fallback>>

\* no attribute matches and the one reason is the fallback
C12_NothingMatches ==
  /\ pc = "done" /\ reasons_out = <<Fallback>>
  /\ score_pattern(p, prefs) = Dbl(0)

\* C17 as claimed: an entry whose score is above 0, one that matches on gender
\* alone included, gets an attribute's sentence and not the fallback.
C17_FallbackOnlyAtZero ==
  pc = "done" =>
    (score_pattern(p, prefs) # Dbl(0) => reasons_out # <<Fallback>>)

\* C17 as the code has it: the fallback is returned exactly when none of the
\* five surfaced conditions matches; a match on gender alone scores 1.0 and
\* gets the fallback.
C17_FallbackWithoutSurfaced ==
  pc = "done" =>
    /\ reasons_out = <<Fallback>> <=> SentencesFrom(1) = <<>>
    /\ (Adds("gender") /\ SentencesFrom(1) = <<>>) =>
         (score_pattern(p, prefs) = Dbl(10) /\ reasons_out = <<Fallback>>)

\* an entry that matches on gender alone
C17_GenderAlone ==
  /\ pc = "done" /\ reasons_out = <<Fallback>>
  /\ Adds("gender") /\ score_pattern(p, prefs) = Dbl(10)

\* C13: a call to recommend leaves the catalog (entries, their lists and
\* palettes, their order) and the preference set as they were before it.
C13_InputsUnchanged ==
  [][(pc = "call" /\ pc' = "done") => (PATTERNS' = PATTERNS /\ prefs' = prefs)]_vars

\* recommend has reordered entries in its result and widened a palette with
\* pure white or black, and the catalog still starts with another entry
C13_SortedAndWidened ==
  /\ pc = "done" /\ recs.exc = "none" /\ Len(recs.results) >= 2
  /\ recs.results[1].pattern # PATTERNS[1].name
  /\ \E j \in 1..Len(recs.results) :
       /\ recs.results[j].colors.obi \in {PureWhite, PureBlack}
       /\ \A i \in 1..Len(PATTERNS) :
            PATTERNS[i].name = recs.results[j].pattern =>
              \A q \in 1..Len(PATTERNS[i].color_palettes) :
                recs.results[j].colors.obi \notin Range(PATTERNS[i].color_palettes[q])

Linear(v) == v * 100 * (FDen \div (255 * 1292))

\* the gamma decoding the claim describes: linear up to v = 10, power law above
Piecewise(v) == IF v <= 10 THEN Linear(v) ELSE PowerLaw[v + 1]

\* C15 as claimed: rel_luminance decodes a channel v linearly only for
\* v <= 10 (v/255 <= 0.04045) and with the power law for every v >= 11.
C15_PiecewiseGamma ==
  pc = "done" => lum[1] = weighted([i \in 1..3 |-> Piecewise(channels[i])])

\* C16 as claimed: with the High tier, the obi pick_combo returns has a
\* contrast ratio against the base colour inside [3.5, 21.0].
C16_HighObiInRange ==
  (pc = "done" /\ combo.exc = "none" /\ UserTier = "High") =>
    InTier(contrast(combo.colors.kimono_base, combo.colors.obi), "High")

\* '#' followed by exactly six hexadecimal digits
WellFormedColour(c) ==
  Len(c) = 7 /\ c[1] = "#" /\ \A i \in 2..7 : c[i] \in HexDigits

WellFormedEntry(q) ==
  \A i \in 1..Len(q.color_palettes) :
    /\ q.color_palettes[i] # <<>>
    /\ \A j \in 1..Len(q.color_palettes[i]) : WellFormedColour(q.color_palettes[i][j])

\* C18: every colour that a Pattern Manager save or a bulk import stores in
\* the catalog is '#' followed by exactly six hexadecimal digits and every
\* stored palette is non-empty, and no run of the script ends in an exception
\* of recommend.
C18_EditorValidatesColours ==
  /\ (op.kind \in {"save", "import"} =>
        \A i \in 1..Len(op.objs) : WellFormedEntry(op.objs[i]))
  /\ pc # "halted"

NamesOf(seq) == {seq[i].name : i \in 1..Len(seq)}

UniqueNames(seq) == \A i, j \in 1..Len(seq) : seq[i].name = seq[j].name => i = j

\* a single write of o over the catalog before: the entry of that name is
\* replaced where it stands, or o is added at the end when the name is new
WriteWins(before, o, now) ==
  IF o.name \in NamesOf(before)
  THEN /\ Len(now) = Len(before)
       /\ \A i \in 1..Len(now) :
            now[i] = IF before[i].name = o.name THEN o ELSE before[i]
  ELSE now = Append(before, o)

\* a delete of o: the entry with that name is gone, every other entry stays
DeleteRemoves(before, o, now) ==
  /\ Len(now) = Len(before) - 1
  /\ o.name \notin NamesOf(now)
  /\ \A i \in 1..Len(before) :
       before[i].name # o.name => \E j \in 1..Len(now) : now[j] = before[i]

\* a bulk write of objs: each name holds the last object written under it,
\* the names not written keep their entries, nothing else appears
ImportWins(before, objs, now) ==
  /\ NamesOf(now) = NamesOf(before) \cup NamesOf(objs)
  /\ \A j \in 1..Len(objs) :
       (\A l \in (j + 1)..Len(objs) : objs[l].name # objs[j].name)
         => \E i \in 1..Len(now) : now[i] = objs[j]
  /\ \A i \in 1..Len(before) :
       before[i].name \notin NamesOf(objs) => \E j \in 1..Len(now) : now[j] = before[i]

LastWriteWins(kind, before, objs, now) ==
  /\ UniqueNames(now)
  /\ kind \in {"add", "save"} => WriteWins(before, objs[1], now)
  /\ kind = "delete" => DeleteRemoves(before, objs[1], now)
  /\ kind = "import" => ImportWins(before, objs, now)

\* C19: from an initial catalog with unique names, after any sequence of
\* Simple Add, Save, Delete, Import and Seed no two entries of the catalog
\* share a name; a write under an existing name replaces that entry (the last
\* write wins), and a delete removes the entry of that name and no other.
C19_UniqueNamesLastWriteWins ==
  LastWriteWins(op.kind, op.before, op.objs, load_file(file))

\* a Save under a name the catalog already holds, with other content, in a
\* catalog of several entries
C19_ExistingNameOverwritten ==
  /\ op.kind = "save" /\ Len(op.before) >= 2
  /\ \E i \in 1..Len(op.before) :
       op.before[i].name = op.objs[1].name /\ op.before[i] # op.objs[1]

\* the cached load, when there is one, is the load of the file as it stands
CacheFresh(cached, loaded) == cached # <<>> => cached[1] = loaded

\* C20: every write of the pattern file clears the cached load before the
\* script next runs: a cached load is never older than the file, and the
\* PATTERNS a run hands to recommend is the load of what was last written.
C20_RunUsesLastWrite ==
  /\ CacheFresh(cache, load_file(file))
  /\ pc \in {"ui", "halted"} => PATTERNS = load_file(file)

\* a run that follows a write made while an earlier load was cached, and
\* that sees the catalog the write produced
C20_RunAfterWriteReloads ==
  /\ pc = "ui" /\ op.kind \in {"add", "save", "delete", "import", "wipe"}
  /\ PATTERNS # op.before /\ cache = <<PATTERNS>>

====
